---- MODULE Spec2Model ----
(***************************************************************************)
(* Model of overview.go, a Nagios probe for the RabbitMQ management API:   *)
(* limitMap, processHost, processOverview and main.                        *)
(*                                                                         *)
(* A Go string is a sequence of one-character strings.  A printed line is  *)
(* the sequence of the operands of the Go "+" that builds it               *)
(* (level, the digits of strconv.Itoa, label).  A Go pointer or slice is   *)
(* Nil (<<>>) or a one-element sequence holding the pointee.               *)
(***************************************************************************)
EXTENDS Integers, Sequences, FiniteSets, TLC

\* Largest number of hosts in the generated --host lists.
MaxHosts == 2
\* Counters 0..MaxCounter are offered by the broker (besides -1 and 10).
MaxCounter == 1
\* Longest --warning string tried in SpecLimit.
MaxLen == 5

VARIABLES
    opt,          \* options: Host, Warning, Critical (raw strings)
    pc,           \* position of main
    err,          \* main's current err
    warningLimits,
    criticalLimits,
    hosts,        \* strings.Split(opt.Host, ",")
    idx,          \* number of hosts the range loop has taken
    over,         \* *Overview returned by the last processHost
    stdout,       \* lines written by fmt.Println
    logOut,       \* lines written by log.Println and the runtime (stderr)
    exit,         \* <<>> while running, <<status>> once the process ended
    limitCalls,   \* history: the calls of limitMap, with their results
    calls,        \* history: the calls of processHost, with their results
    evaluated     \* history: number of processOverview calls that returned

vars == <<opt, pc, err, warningLimits, criticalLimits, hosts, idx, over,
          stdout, logOut, exit, limitCalls, calls, evaluated>>

Nil == <<>>

Ptr(x) == <<x>>

----------------------------------------------------------------------------
\* Errors.  detail carries the text the error quotes (the piece Atoi rejected).

NoErr == [kind |-> "nil", detail |-> <<>>]

MalformedLimits == [kind |-> "malformed", detail |-> <<>>]

SyntaxError(s) == [kind |-> "syntax", detail |-> s]

FlagsErr == [kind |-> "flags", detail |-> <<>>]

RequestErr == [kind |-> "request", detail |-> <<>>]

TransportErr == [kind |-> "transport", detail |-> <<>>]

ReadErr == [kind |-> "read", detail |-> <<>>]

DecodeErr == [kind |-> "decode", detail |-> <<>>]

NilDereference == [kind |-> "panic", detail |-> <<>>]

HostErrKinds == {"request", "transport", "read", "decode"}

----------------------------------------------------------------------------
\* Library functions the program calls, by what they do.

Digits == <<"0", "1", "2", "3", "4", "5", "6", "7", "8", "9">>

IsDigit(ch) == \E d \in 1..10 : Digits[d] = ch

DigitVal(ch) == (CHOOSE d \in 1..10 : Digits[d] = ch) - 1

RECURSIVE SplitFrom(_, _, _, _)
SplitFrom(s, sep, k, cur) ==
    IF k > Len(s) THEN <<cur>>
    ELSE IF s[k] = sep THEN <<cur>> \o SplitFrom(s, sep, k + 1, <<>>)
    ELSE SplitFrom(s, sep, k + 1, Append(cur, s[k]))

\* strings.Split: the pieces between separators; "" gives one empty piece.
Split(s, sep) == SplitFrom(s, sep, 1, <<>>)

RECURSIVE AtoiDigits(_, _, _)
AtoiDigits(s, k, n) ==
    IF k > Len(s) THEN [n |-> n, ok |-> TRUE]
    ELSE IF ~IsDigit(s[k]) THEN [n |-> 0, ok |-> FALSE]
    ELSE AtoiDigits(s, k + 1, n * 10 + DigitVal(s[k]))

\* strconv.Atoi on strings shorter than 19 characters (no range error can
\* occur there): optional sign, then one or more decimal digits.
Atoi(s0) ==
    IF Len(s0) = 0 THEN [n |-> 0, err |-> SyntaxError(s0)]
    ELSE LET s == IF s0[1] \in {"-", "+"} THEN Tail(s0) ELSE s0
             r == AtoiDigits(s, 1, 0)
         IN  IF Len(s) < 1 \/ ~r.ok THEN [n |-> 0, err |-> SyntaxError(s0)]
             ELSE [n |-> IF s0[1] = "-" THEN -r.n ELSE r.n, err |-> NoErr]

RECURSIVE ItoaNat(_)
ItoaNat(n) ==
    IF n < 10 THEN <<Digits[n + 1]>>
    ELSE Append(ItoaNat(n \div 10), Digits[(n % 10) + 1])

\* strconv.Itoa
Itoa(n) == IF n < 0 THEN <<"-">> \o ItoaNat(-n) ELSE ItoaNat(n)

----------------------------------------------------------------------------
\* limitMap

RECURSIVE limitMapLoop(_, _, _)
limitMapLoop(pieces, k, warning) ==
    IF k > Len(pieces) THEN [val |-> warning, err |-> NoErr, logs |-> <<>>]
    ELSE LET r == Atoi(pieces[k])
         IN  IF r.err # NoErr
             THEN [val |-> Nil, err |-> r.err,
                   logs |-> <<[by |-> "limitMap", msg |-> r.err]>>]
             ELSE limitMapLoop(pieces, k + 1, Append(warning, r.n))

limitMapLax(str) ==
    LET warningLimits_ == Split(str, ",")
    IN  IF Len(warningLimits_) < 2
        THEN [val |-> Nil, err |-> MalformedLimits, logs |-> <<>>]
        ELSE limitMapLoop(warningLimits_, 1, <<>>)

\* val: the returned slice (Nil on failure); err: the returned error;
\* logs: what the call wrote with log.Println.
limitMap(str) ==
    LET warningLimits_ == Split(str, ",")
    IN  IF Len(warningLimits_) # 2
        THEN [val |-> Nil, err |-> MalformedLimits, logs |-> <<>>]
        ELSE limitMapLoop(warningLimits_, 1, <<>>)

----------------------------------------------------------------------------
\* The broker's answers and json.Unmarshal

Counters == {-1, 10} \cup (0..MaxCounter)

Absent == <<>>

\* queue_totals objects: each counter absent or present with a value.
QueueTotalsJSON ==
    [messages_ready : {Absent} \cup {<<v>> : v \in Counters},
     messages_unacknowledged : {Absent} \cup {<<v>> : v \in Counters}]

\* Response bodies: text that is not JSON, the literal null, an object
\* without queue_totals, an object with queue_totals.
Bodies ==
    {[kind |-> "invalid", qt |-> Absent], [kind |-> "null", qt |-> Absent],
     [kind |-> "object", qt |-> Absent]}
    \cup {[kind |-> "object", qt |-> <<q>>] : q \in QueueTotalsJSON}

\* What the network does to one request: NewRequest fails, Do fails,
\* reading the body fails, or a body arrives.
Nets ==
    {[stage |-> s, body |-> [kind |-> "invalid", qt |-> Absent]] :
        s \in {"request", "do", "read"}}
    \cup {[stage |-> "body", body |-> b] : b \in Bodies}

ZeroOverview == [QueueTotals |-> [MessagesUnack |-> 0, MessagesReady |-> 0]]

FieldOr(f, old) == IF f = Absent THEN old ELSE f[1]

\* json.Unmarshal(body, &over) with over pointing at a zero Overview:
\* null sets the pointer over to nil, absent fields keep their zero value.
Unmarshal(body, ov) ==
    IF body.kind = "invalid" THEN [over |-> ov, err |-> DecodeErr]
    ELSE IF body.kind = "null" THEN [over |-> Nil, err |-> NoErr]
    ELSE IF body.qt = Absent THEN [over |-> ov, err |-> NoErr]
    ELSE LET q == body.qt[1]
             old == ov[1].QueueTotals
         IN  [over |-> Ptr([QueueTotals |->
                  [MessagesUnack |-> FieldOr(q.messages_unacknowledged, old.MessagesUnack),
                   MessagesReady |-> FieldOr(q.messages_ready, old.MessagesReady)]]),
              err |-> NoErr]

----------------------------------------------------------------------------
\* processHost

processHostNoDefer(host, net) ==
    IF net.stage = "request"
    THEN [host |-> host, over |-> Nil, err |-> RequestErr, body |-> "none"]
    ELSE IF net.stage = "do"
    THEN [host |-> host, over |-> Nil, err |-> TransportErr, body |-> "none"]
    ELSE IF net.stage = "read"
    THEN [host |-> host, over |-> Nil, err |-> ReadErr, body |-> "open"]
    ELSE LET u == Unmarshal(net.body, Ptr(ZeroOverview))
         IN  IF u.err # NoErr
             THEN [host |-> host, over |-> Nil, err |-> u.err, body |-> "open"]
             ELSE [host |-> host, over |-> u.over, err |-> NoErr, body |-> "closed"]

\* over, err: the returned values; body: "none" when no response arrived,
\* else "closed" or "open" as response.Body is at the return.
processHost(host, net) ==
    IF net.stage = "request"
    THEN [host |-> host, over |-> Nil, err |-> RequestErr, body |-> "none"]
    ELSE IF net.stage = "do"
    THEN [host |-> host, over |-> Nil, err |-> TransportErr, body |-> "none"]
    ELSE \* defer response.Body.Close(): closed at every return below
         IF net.stage = "read"
    THEN [host |-> host, over |-> Nil, err |-> ReadErr, body |-> "closed"]
    ELSE LET u == Unmarshal(net.body, Ptr(ZeroOverview))
         IN  IF u.err # NoErr
             THEN [host |-> host, over |-> Nil, err |-> u.err, body |-> "closed"]
             ELSE [host |-> host, over |-> u.over, err |-> NoErr, body |-> "closed"]

----------------------------------------------------------------------------
\* processOverview

Level(v, warn, crit) ==
    IF v >= crit THEN "CRITICAL "
    ELSE IF v >= warn THEN "WARNING "
    ELSE "OK "

LevelStrict(v, warn, crit) ==
    IF v > crit THEN "CRITICAL "
    ELSE IF v > warn THEN "WARNING "
    ELSE "OK "

processOverviewStrict(ov, warning, critical) ==
    IF ov = Nil THEN [panic |-> TRUE, lines |-> <<>>]
    ELSE LET q == ov[1].QueueTotals
         IN  [panic |-> FALSE,
              lines |-> <<
                <<LevelStrict(q.MessagesReady, warning[1], critical[1])>>
                    \o Itoa(q.MessagesReady) \o <<" messages ready">>,
                <<LevelStrict(q.MessagesUnack, warning[2], critical[2])>>
                    \o Itoa(q.MessagesUnack) \o <<" messages unacknowledged">> >>]

processOverviewSwapped(ov, warning, critical) ==
    IF ov = Nil THEN [panic |-> TRUE, lines |-> <<>>]
    ELSE LET q == ov[1].QueueTotals
         IN  [panic |-> FALSE,
              lines |-> <<
                <<Level(q.MessagesReady, warning[1], critical[1])>>
                    \o Itoa(q.MessagesUnack) \o <<" messages ready">>,
                <<Level(q.MessagesUnack, warning[2], critical[2])>>
                    \o Itoa(q.MessagesReady) \o <<" messages unacknowledged">> >>]

\* panic: the dereference of a nil over at the first statement;
\* lines: the two lines printed otherwise (Go slices index from 0).
processOverview(ov, warning, critical) ==
    IF ov = Nil THEN [panic |-> TRUE, lines |-> <<>>]
    ELSE LET q == ov[1].QueueTotals
         IN  [panic |-> FALSE,
              lines |-> <<
                <<Level(q.MessagesReady, warning[1], critical[1])>>
                    \o Itoa(q.MessagesReady) \o <<" messages ready">>,
                <<Level(q.MessagesUnack, warning[2], critical[2])>>
                    \o Itoa(q.MessagesUnack) \o <<" messages unacknowledged">> >>]

----------------------------------------------------------------------------
\* Inputs

RECURSIVE HostString(_)
HostString(n) ==
    IF n = 1 THEN <<"a">>
    ELSE HostString(n - 1) \o <<",", IF n % 2 = 0 THEN "b" ELSE "a">>

\* --host values: the empty string and lists of 1..MaxHosts names.
HostStrings == {<<>>} \cup {HostString(n) : n \in 1..MaxHosts}

\* --warning / --critical values: three well-formed pairs, and strings with
\* one piece, three pieces, no text, a non-numeric first or second piece.
LimitStrings ==
    { <<"0", ",", "1", "0">>, <<"1", "0", ",", "0">>, <<"1", ",", "1">>,
      <<"1", "0">>, <<"x", ",", "y", ",", "z">>, <<>>,
      <<"x", ",", "1">>, <<"1", ",", "x">> }

Alphabet == {"0", "1", "-", "+", ",", "x"}

AllStrings(n) == UNION {[1..k -> Alphabet] : k \in 0..n}

InitRest ==
    /\ pc = "flags"
    /\ err = NoErr
    /\ warningLimits = Nil
    /\ criticalLimits = Nil
    /\ hosts = Nil
    /\ idx = 0
    /\ over = Nil
    /\ stdout = <<>>
    /\ logOut = <<>>
    /\ exit = <<>>
    /\ limitCalls = <<>>
    /\ calls = <<>>
    /\ evaluated = 0

Init ==
    /\ opt \in [Host : HostStrings, Warning : LimitStrings, Critical : LimitStrings]
    /\ InitRest

\* Every --warning string over Alphabet up to MaxLen, one host.
InitLimit ==
    /\ opt \in [Host : {HostString(1)}, Warning : AllStrings(MaxLen),
                Critical : {<<"1", ",", "1">>}]
    /\ InitRest

----------------------------------------------------------------------------
\* main

\* return from main: the process ends with status 0.
Return == pc' = "exit" /\ exit' = <<0>>

\* flags.Parse and the return on its error.
ParseFlags ==
    /\ pc = "flags"
    /\ \E ok \in BOOLEAN :
        IF ok THEN /\ pc' = "warning"
                   /\ UNCHANGED <<err, exit>>
        ELSE /\ err' = FlagsErr
             /\ Return
    /\ UNCHANGED <<opt, warningLimits, criticalLimits, hosts, idx, over, stdout,
                   logOut, limitCalls, calls, evaluated>>

ParseWarningIgnoreErr ==
    /\ pc = "warning"
    /\ LET r == limitMap(opt.Warning)
       IN  /\ limitCalls' = Append(limitCalls, [str |-> opt.Warning, val |-> r.val, err |-> r.err])
           /\ warningLimits' = r.val
           /\ err' = r.err
           /\ logOut' = logOut \o r.logs
           /\ pc' = "critical"
           /\ UNCHANGED exit
    /\ UNCHANGED <<opt, criticalLimits, hosts, idx, over, stdout, calls, evaluated>>

ParseWarning ==
    /\ pc = "warning"
    /\ LET r == limitMap(opt.Warning)
       IN  /\ limitCalls' = Append(limitCalls, [str |-> opt.Warning, val |-> r.val, err |-> r.err])
           /\ warningLimits' = r.val
           /\ err' = r.err
           /\ IF r.err # NoErr
              THEN /\ logOut' = logOut \o r.logs \o <<[by |-> "main", msg |-> r.err]>>
                   /\ Return
              ELSE /\ logOut' = logOut \o r.logs
                   /\ pc' = "critical"
                   /\ UNCHANGED exit
    /\ UNCHANGED <<opt, criticalLimits, hosts, idx, over, stdout, calls, evaluated>>

ParseCritical ==
    /\ pc = "critical"
    /\ LET r == limitMap(opt.Critical)
       IN  /\ limitCalls' = Append(limitCalls, [str |-> opt.Critical, val |-> r.val, err |-> r.err])
           /\ criticalLimits' = r.val
           /\ err' = r.err
           /\ IF r.err # NoErr
              THEN /\ logOut' = logOut \o r.logs \o <<[by |-> "main", msg |-> r.err]>>
                   /\ Return
              ELSE /\ logOut' = logOut \o r.logs
                   /\ pc' = "split"
                   /\ UNCHANGED exit
    /\ UNCHANGED <<opt, warningLimits, hosts, idx, over, stdout, calls, evaluated>>

SplitHosts ==
    /\ pc = "split"
    /\ hosts' = Split(opt.Host, ",")
    /\ idx' = 0
    /\ pc' = "range"
    /\ UNCHANGED <<opt, err, warningLimits, criticalLimits, over, stdout, logOut,
                   exit, limitCalls, calls, evaluated>>

\* The range loop takes the next host and calls processHost on it.
ProcessHost ==
    /\ pc = "range"
    /\ idx < Len(hosts)
    /\ \E net \in Nets :
        LET r == processHost(hosts[idx + 1], net)
        IN  /\ over' = r.over
            /\ err' = r.err
            /\ calls' = Append(calls, r)
    /\ idx' = idx + 1
    /\ pc' = "check"
    /\ UNCHANGED <<opt, warningLimits, criticalLimits, hosts, stdout, logOut, exit,
                   limitCalls, evaluated>>

HostErrorContinue ==
    /\ pc = "check"
    /\ err # NoErr
    /\ logOut' = Append(logOut, [by |-> "main", msg |-> err])
    /\ pc' = "range"
    /\ UNCHANGED <<opt, err, warningLimits, criticalLimits, hosts, idx, over, stdout,
                   exit, limitCalls, calls, evaluated>>

HostErrorSilent ==
    /\ pc = "check"
    /\ err # NoErr
    /\ Return
    /\ UNCHANGED <<opt, err, warningLimits, criticalLimits, hosts, idx, over, stdout,
                   logOut, limitCalls, calls, evaluated>>

\* processHost returned an error: log it and return.
HostError ==
    /\ pc = "check"
    /\ err # NoErr
    /\ logOut' = Append(logOut, [by |-> "main", msg |-> err])
    /\ Return
    /\ UNCHANGED <<opt, err, warningLimits, criticalLimits, hosts, idx, over, stdout,
                   limitCalls, calls, evaluated>>

\* processHost returned no error: processOverview is entered.  Its first
\* statement dereferences over (a nil over kills the process: the runtime
\* reports it and exits with 2); then the first Println writes the
\* 'messages ready' line.
ProcessOverviewReady ==
    /\ pc = "check"
    /\ err = NoErr
    /\ LET r == processOverview(over, warningLimits, criticalLimits)
       IN  IF r.panic
           THEN /\ pc' = "panic"
                /\ exit' = <<2>>
                /\ logOut' = Append(logOut, [by |-> "runtime", msg |-> NilDereference])
                /\ UNCHANGED stdout
           ELSE /\ stdout' = Append(stdout, r.lines[1])
                /\ pc' = "unack"
                /\ UNCHANGED <<exit, logOut>>
    /\ UNCHANGED <<opt, err, warningLimits, criticalLimits, hosts, idx, over,
                   limitCalls, calls, evaluated>>

\* The second Println writes the 'messages unacknowledged' line and
\* processOverview returns to the range loop.
ProcessOverviewUnack ==
    /\ pc = "unack"
    /\ LET r == processOverview(over, warningLimits, criticalLimits)
       IN  stdout' = Append(stdout, r.lines[2])
    /\ evaluated' = evaluated + 1
    /\ pc' = "range"
    /\ UNCHANGED <<opt, err, warningLimits, criticalLimits, hosts, idx, over,
                   logOut, exit, limitCalls, calls>>

\* The range loop is exhausted: main returns.
MainReturn ==
    /\ pc = "range"
    /\ idx >= Len(hosts)
    /\ Return
    /\ UNCHANGED <<opt, err, warningLimits, criticalLimits, hosts, idx, over, stdout,
                   logOut, limitCalls, calls, evaluated>>

Next ==
    \/ ParseFlags
    \/ ParseWarning
    \/ ParseCritical
    \/ SplitHosts
    \/ ProcessHost
    \/ HostError
    \/ ProcessOverviewReady
    \/ ProcessOverviewUnack
    \/ MainReturn

Spec == Init /\ [][Next]_vars

SpecLimit == InitLimit /\ [][Next]_vars

----------------------------------------------------------------------------
\* Vocabulary of the properties, defined without the program's operators.

RECURSIVE Pow10(_)
Pow10(n) == IF n = 0 THEN 1 ELSE 10 * Pow10(n - 1)

RECURSIVE SumTo(_, _)
\* f[1] + ... + f[n]
SumTo(f, n) == IF n = 0 THEN 0 ELSE f[n] + SumTo(f, n - 1)

\* The number a run of decimal digits denotes.
DigitsValue(ds) ==
    SumTo([k \in 1..Len(ds) |-> DigitVal(ds[k]) * Pow10(Len(ds) - k)], Len(ds))

\* Text of an integer: an optional sign and one or more decimal digits.
Unsigned(p) == IF Len(p) > 0 /\ p[1] \in {"-", "+"} THEN Tail(p) ELSE p

IsIntText(p) ==
    /\ Len(Unsigned(p)) >= 1
    /\ \A k \in 1..Len(Unsigned(p)) : IsDigit(Unsigned(p)[k])

IntValue(p) ==
    IF p[1] = "-" THEN 0 - DigitsValue(Unsigned(p)) ELSE DigitsValue(Unsigned(p))

Commas(s) == {k \in 1..Len(s) : s[k] = ","}

\* Of a printed line: its level, the integer it shows, its label.
LineLevel(line) == line[1]

LineNumber(line) == IntValue(SubSeq(line, 2, Len(line) - 1))

LineLabel(line) == line[Len(line)]

\* The counters processHost returned for the k-th fetched host.
Snapshot(k) == calls[k].over[1].QueueTotals

HostList == Split(opt.Host, ",")

LevelIs(line, v, w, c) ==
    /\ LineLevel(line) \in {"CRITICAL ", "WARNING ", "OK "}
    /\ LineLevel(line) = "CRITICAL " <=> v >= c
    /\ LineLevel(line) = "WARNING " <=> (v < c /\ v >= w)
    /\ LineLevel(line) = "OK " <=> (v < c /\ v < w)

----------------------------------------------------------------------------
\* C1: every printed ready line says CRITICAL exactly when
\* ready >= critical[0], WARNING exactly when ready < critical[0] and
\* ready >= warning[0], OK exactly when it is below both; every printed
\* unacknowledged line says the same of unack against critical[1] and
\* warning[1]; one line and one level per counter (the ready line alone
\* while the host's unacknowledged line is still to be printed).
C1_Classification ==
    /\ Len(stdout) = 2 * evaluated + (IF pc = "unack" THEN 1 ELSE 0)
    /\ \A k \in 1..evaluated :
        /\ LevelIs(stdout[2 * k - 1], Snapshot(k).MessagesReady,
                   warningLimits[1], criticalLimits[1])
        /\ LevelIs(stdout[2 * k], Snapshot(k).MessagesUnack,
                   warningLimits[2], criticalLimits[2])
    /\ pc = "unack" =>
        LevelIs(stdout[2 * evaluated + 1], Snapshot(evaluated + 1).MessagesReady,
                warningLimits[1], criticalLimits[1])

\* A host whose ready counter equals a critical limit that is below the
\* warning limit was printed CRITICAL, its unack counter OK.
C1_Witness ==
    /\ evaluated >= 1
    /\ criticalLimits[1] < warningLimits[1]
    /\ Snapshot(1).MessagesReady = criticalLimits[1]
    /\ LineLevel(stdout[1]) = "CRITICAL "
    /\ LineLevel(stdout[2]) = "OK "

\* C2: the hosts processHost was called on are a prefix of the split host
\* list, in order, one call per position; a call that returned an error is
\* the last call, only the hosts before it were evaluated, and main is at
\* its error return or has exited.
C2_PrefixAndStop ==
    /\ Len(calls) <= Len(HostList)
    /\ \A k \in 1..Len(calls) : calls[k].host = HostList[k]
    /\ idx = Len(calls)
    /\ \A k \in 1..Len(calls) :
        calls[k].err # NoErr =>
            /\ k = Len(calls)
            /\ pc \in {"check", "exit"}
            /\ evaluated = k - 1
            /\ Len(stdout) = 2 * (k - 1)

\* Two hosts, the first fetch failed, the run is over.
C2_Witness ==
    /\ Len(HostList) = 2
    /\ Len(calls) = 1
    /\ calls[1].err # NoErr
    /\ pc = "exit"
    /\ stdout = <<>>

\* C3: a failed limitMap call is the last one and ends the run with no
\* processHost call and an empty stdout; processHost is called only after
\* limitMap succeeded on the warning and then on the critical string; the
\* critical string is parsed only after the warning string succeeded.
C3_LimitsBeforeHosts ==
    /\ \A k \in 1..Len(limitCalls) :
        limitCalls[k].err # NoErr =>
            /\ k = Len(limitCalls)
            /\ pc = "exit"
            /\ calls = <<>>
            /\ stdout = <<>>
    /\ Len(limitCalls) >= 1 => limitCalls[1].str = opt.Warning
    /\ Len(limitCalls) >= 2 =>
            /\ limitCalls[1].err = NoErr
            /\ limitCalls[2].str = opt.Critical
    /\ calls # <<>> =>
            /\ Len(limitCalls) = 2
            /\ limitCalls[1].err = NoErr
            /\ limitCalls[2].err = NoErr

\* The warning string parsed, the critical string did not, the run is over.
C3_Witness ==
    /\ Len(limitCalls) = 2
    /\ limitCalls[1].err = NoErr
    /\ limitCalls[2].err # NoErr
    /\ pc = "exit"

\* C4: limitMap succeeds exactly on strings with one comma whose two pieces
\* are integer texts, and then returns their values in order; any other
\* comma count gives the malformed-limits error, one comma with a piece that
\* is no integer the non-numeric error; every failure returns nil.
C4_LimitMap ==
    \A k \in 1..Len(limitCalls) :
        LET s == limitCalls[k].str
            r == limitCalls[k]
            one == Cardinality(Commas(s)) = 1
            at == CHOOSE c \in Commas(s) : TRUE
            p1 == SubSeq(s, 1, at - 1)
            p2 == SubSeq(s, at + 1, Len(s))
            good == one /\ IsIntText(p1) /\ IsIntText(p2)
        IN  /\ r.err = NoErr <=> good
            /\ good => r.val = <<IntValue(p1), IntValue(p2)>>
            /\ ~one => r.err = MalformedLimits
            /\ (one /\ ~good) => r.err.kind = "syntax"
            /\ r.err # NoErr => r.val = Nil

\* limitMap returned a negative first and a signed second limit.
C4_Witness ==
    /\ Len(limitCalls) >= 1
    /\ limitCalls[1].err = NoErr
    /\ limitCalls[1].val[1] < 0
    /\ Len(limitCalls[1].str) = 4

\* The lines of the first n hosts: for each, the fetch succeeded, the
\* 'messages ready' line comes right before the 'messages unacknowledged'
\* line, each showing the counter that host returned.
LinesOfHosts(n) ==
    \A k \in 1..n :
        /\ calls[k].err = NoErr
        /\ calls[k].host = HostList[k]
        /\ LineLabel(stdout[2 * k - 1]) = " messages ready"
        /\ LineNumber(stdout[2 * k - 1]) = Snapshot(k).MessagesReady
        /\ LineLabel(stdout[2 * k]) = " messages unacknowledged"
        /\ LineNumber(stdout[2 * k]) = Snapshot(k).MessagesUnack

\* C5 as stated: at every point of a run stdout is exactly the two lines of
\* each evaluated host, in list order, and holds no line of any other host.
C5_TwoLinesAtEveryPoint ==
    /\ Len(stdout) = 2 * evaluated
    /\ evaluated <= Len(calls)
    /\ LinesOfHosts(evaluated)

\* C5 as amended: whenever no processOverview call is under way, stdout is
\* exactly the two lines of each evaluated host, in list order, ready line
\* right before unacknowledged line, each with that host's counter; the
\* evaluated hosts are the fetched hosts, but for a last one that failed,
\* is about to be evaluated or returned a nil Overview.  Inside a
\* processOverview call, between its two Println calls, stdout holds in
\* addition the ready line of the host being evaluated, and nothing else.
C5_TwoLinesPerHost ==
    /\ Len(stdout) = 2 * evaluated + (IF pc = "unack" THEN 1 ELSE 0)
    /\ evaluated <= Len(calls)
    /\ evaluated >= Len(calls) - 1
    /\ LinesOfHosts(evaluated)
    /\ pc = "unack" =>
        /\ Len(calls) = evaluated + 1
        /\ calls[evaluated + 1].err = NoErr
        /\ calls[evaluated + 1].host = HostList[evaluated + 1]
        /\ LineLabel(stdout[2 * evaluated + 1]) = " messages ready"
        /\ LineNumber(stdout[2 * evaluated + 1]) = Snapshot(evaluated + 1).MessagesReady

\* The second host is between its two Println calls: three lines, the last
\* its ready line showing 10, after the two lines of the first host.
C5_Witness ==
    /\ pc = "unack"
    /\ evaluated = 1
    /\ Len(stdout) = 3
    /\ Snapshot(1).MessagesReady = 0
    /\ Snapshot(2).MessagesReady = 10
    /\ Snapshot(2).MessagesUnack = -1

\* C6 as stated: a run ended by an error has logged a diagnostic and has
\* written no status line.
C6_ErrorMeansNoStatus ==
    (pc = "exit" /\ err # NoErr) =>
        /\ Len(logOut) >= 1
        /\ stdout = <<>>

\* C6 as amended: a run ended by a limit-parse error or by a fetch error has
\* a diagnostic of that error logged by main as the last entry; stdout holds
\* the two lines of each host before the failing one and nothing of the
\* failing host (so nothing at all for a limit-parse error, a configuration
\* error or a failure of the first host); on a configuration error main
\* logs nothing.
C6_ErrorKeepsEarlierHosts ==
    (pc = "exit" /\ err # NoErr) =>
        /\ err.kind # "flags" =>
            /\ Len(logOut) >= 1
            /\ logOut[Len(logOut)] = [by |-> "main", msg |-> err]
        /\ err.kind = "flags" => logOut = <<>>
        /\ err.kind \in HostErrKinds =>
            /\ Len(stdout) = 2 * (Len(calls) - 1)
            /\ evaluated = Len(calls) - 1
        /\ err.kind \notin HostErrKinds => stdout = <<>>

\* The second host failed to decode after the first was printed.
C6_Witness ==
    /\ pc = "exit"
    /\ err.kind = "decode"
    /\ Len(calls) = 2
    /\ Len(stdout) = 2

\* C7 as stated: when processHost returns no error its Overview is usable,
\* and the run does not crash between the fetch and the evaluation.
C7_UsableSnapshot ==
    /\ pc # "panic"
    /\ \A k \in 1..Len(calls) : calls[k].err = NoErr => calls[k].over # Nil

\* C8 as stated: limitMap writes no log line, so that after a failed limit
\* parse the log holds exactly one line, main's, and after successful
\* parses none.
C8_LimitMapNoSideEffects ==
    /\ \A k \in 1..Len(logOut) : logOut[k].by # "limitMap"
    /\ (pc = "exit" /\ err.kind \in {"malformed", "syntax"}) => Len(logOut) = 1
    /\ pc = "split" => logOut = <<>>

\* C9 as stated: a failed configuration parse ends the run before any
\* limitMap or processHost call, with an empty stdout and an exit status
\* that is not 0.
C9_ConfigErrorExit ==
    err.kind = "flags" =>
        /\ limitCalls = <<>>
        /\ calls = <<>>
        /\ stdout = <<>>
        /\ exit # <<>>
        /\ exit[1] # 0

\* C10: no response body is open outside processHost: every call in which
\* the GET gave a response (it failed reading, failed decoding or
\* succeeded) has closed the body, and the other calls had none.
C10_BodiesClosed ==
    \A k \in 1..Len(calls) :
        /\ calls[k].body # "open"
        /\ calls[k].body = "closed" <=> calls[k].err.kind \in {"read", "decode", "nil"}

\* A call whose body read failed, after a call that succeeded.
C10_Witness ==
    /\ Len(calls) = 2
    /\ calls[1].err = NoErr
    /\ calls[2].err = ReadErr
    /\ calls[2].body = "closed"

====
